---- MODULE Spec2Model ----
(***************************************************************************)
(* Model of the HTPasswd credential store of verdaccio-group-htpasswd      *)
(* (src/src/htpasswd.ts).  Every asynchronous callback of the class is one *)
(* action; the helpers of ./utils (absent from the sources) are modelled   *)
(* from their description in the specification.                            *)
(***************************************************************************)
EXTENDS Integers, Sequences, FiniteSets, TLC

\* ------------------------------------------------------------------ bounds
MaxOps == 2      \* operations called on the store in one run
MaxEdits == 1    \* changes of the files by other processes in one run

\* ------------------------------------------------------------------ inputs
Users == {"alice", "bob"}
Passwords == {"p", "q"}
NewPasswords == {"p"}       \* the passwords adduser is called with
ChangedPasswords == {"q"}   \* the new passwords changePassword is called with
FileIds == {1, 2}
Ops == 1..MaxOps
ObjRefs == 0..MaxOps
DateIds == 0..(Cardinality(FileIds) * (MaxOps + 1))

Min(S) == CHOOSE x \in S : \A y \in S : x <= y

\* ------------------------------------------------------------------ codec
\* hash(plaintext): an opaque one-way encoding, never the plaintext itself.
Hash(p) == <<"sha", p>>
NoHash == <<>>

\* verify(plaintext, hash)
verifyPassword(p, h) == h = Hash(p)

\* A record of the index; present = FALSE stands for "no such key".
NoUser == [present |-> FALSE, passwd |-> NoHash, groups |-> {}]
EmptyMap == [u \in Users |-> NoUser]
Keys(m) == {u \in Users : m[u].present}

\* A file body is a sequence of lines <<username, hash>>, each newline-terminated.
LinesOf(body, u) == {i \in 1..Len(body) : body[i][1] = u}
BodyUsers(body) == {body[i][1] : i \in 1..Len(body)}

\* parseEntries(fileContents, groupName, existing): a fresh partial index; the hash
\* is the one parsed (the last line of that username wins), the groups are the
\* existing groups plus groupName.
parseHTPasswd(body, groupName, existing) ==
  [u \in Users |->
     IF LinesOf(body, u) = {} THEN NoUser
     ELSE [present |-> TRUE,
           passwd |-> body[CHOOSE i \in LinesOf(body, u) : \A j \in LinesOf(body, u) : j <= i][2],
           groups |-> (IF existing[u].present THEN existing[u].groups ELSE {}) \cup {groupName}]]

\* The merge, had it kept only what was just parsed.
Replaced(a, b) == b

\* { ...a, ...b } and Object.assign(a, b): the keys of b override those of a.
Spread(a, b) == [u \in Users |-> IF b[u].present THEN b[u] ELSE a[u]]

\* serializeEntries: append one "username:hash" line.
addUserToHTPasswd(body, user, password) == Append(body, <<user, Hash(password)>>)

\* updateEntry: replace the hash of the lines of username, keep everything else.
changePasswordToHTPasswd(body, user, password, newPassword) ==
  [i \in 1..Len(body) |-> IF body[i][1] = user THEN <<user, Hash(newPassword)>> ELSE body[i]]

\* maxUsers is [inf |-> TRUE] for Infinity, else the configured number.
Infinity == [inf |-> TRUE, n |-> 0]
Finite(n) == [inf |-> FALSE, n |-> n]

\* sanityCheck(user, password, verifyFn, users, maxUsers): "none" or the error.
sanityCheck(user, password, users, maxUsers) ==
  IF user = "" \/ password = "" THEN "BadRequest"
  ELSE IF ~maxUsers.inf /\ maxUsers.n < 0 THEN "MaxUsersReached"
  ELSE IF users[user].present THEN "UserExists"
  ELSE IF ~maxUsers.inf /\ Cardinality(Keys(users)) >= maxUsers.n THEN "MaxUsersReached"
  ELSE "none"

\* ------------------------------------------------------------------ configuration
GroupNames == <<"admin", "developer">>
NoMax == [given |-> FALSE, n |-> 0]
Max(n) == [given |-> TRUE, n |-> n]

FileConfs(flags) == [i \in 1..Len(flags) |-> [isDefault |-> flags[i], groupName |-> GroupNames[i]]]

\* constructor(config, stuff)
Constructor(config) ==
  LET maxUsers == IF ~config.max_users.given \/ config.max_users.n = 0
                  THEN Infinity ELSE Finite(config.max_users.n)
      defaults == {i \in 1..Len(config.files) : config.files[i].isDefault}
  IN IF Len(config.files) = 0 \/ defaults = {}
     THEN [ok |-> FALSE, maxUsers |-> maxUsers, defaultFile |-> 0]
     ELSE [ok |-> TRUE, maxUsers |-> maxUsers, defaultFile |-> Min(defaults)]

\* ------------------------------------------------------------------ state
VARIABLES
  config,    \* the configuration handed to the constructor
  store,     \* the constructed object: ok (no throw), maxUsers, defaultFile
  file,      \* the disk: per path, whether it exists, its body, mtime and mode
  file0,     \* the disk before the first operation
  lastTime,  \* FileConf.lastTime of each configured file
  users,     \* this.users: a reference to an index object
  heap,      \* the index objects, by reference
  lock,      \* the advisory lock of the default path: the holding operation or 0
  op,        \* the operations called on the store, by call
  task,      \* the _reloadFile promise of each operation's reload, per file
  edits,     \* changes by other processes so far
  ver        \* number of changes of the disk so far

vars == <<config, store, file, file0, lastTime, users, heap, lock, op, task, edits, ver>>

\* A Date object: identity (id) and value (t); set = FALSE stands for undefined.
NoDate == [set |-> FALSE, id |-> 0, t |-> 0]
\* a === b on two Date objects (or undefined): the same object, not the same time.
SameObject(a, b) == (~a.set /\ ~b.set) \/ (a.set /\ b.set /\ a.id = b.id)

NoTask == [pc |-> "none", lastTime |-> NoDate, oldUsers |-> 0]
Pending(t) == t.pc \in {"stat", "read"}
PendingTasks(t) == {x \in Ops \X FileIds : Pending(t[x[1]][x[2]])}

IdleOp == [kind |-> "none", pc |-> "idle", user |-> "", password |-> "",
           locked |-> FALSE, rbody |-> <<>>, wbody |-> <<>>, pend |-> "none",
           err |-> "none", ok |-> FALSE, lerr |-> "none", rerr |-> "none",
           calls |-> 0, acquired |-> FALSE, unlocks |-> 0, uerr |-> "none", wrote |-> FALSE,
           startVer |-> 0, endVer |-> 0, after |-> {}, snap |-> EmptyMap]

NumFiles == Len(config.files)
Configured == 1..NumFiles
defaultConfig == config.files[store.defaultFile]
DefaultGroup == defaultConfig.groupName

\* Only this.users and the oldUsers of pending promises are still reachable.
Collect(h, u, t) ==
  LET live == {u} \cup {t[x[1]][x[2]].oldUsers : x \in PendingTasks(t)}
  IN [r \in ObjRefs |-> IF r \in live THEN h[r] ELSE EmptyMap]
\* A new object, a new Date: a reference no reachable object has.
NewObj == Min(ObjRefs \ ({users} \cup {task[x[1]][x[2]].oldUsers : x \in PendingTasks(task)}))
NewDate == Min(DateIds \ ({lastTime[f].id : f \in {g \in FileIds : lastTime[g].set}}
                          \cup {task[x[1]][x[2]].lastTime.id :
                                  x \in {y \in Ops \X FileIds : task[y[1]][y[2]].lastTime.set}}))

\* ------------------------------------------------------------------ the file system
Missing == [exists |-> FALSE, body |-> <<>>, mtime |-> 0, mode |-> "rw"]
Present(body) == [exists |-> TRUE, body |-> body, mtime |-> 0, mode |-> "rw"]

\* fs.stat(path): "none" or the error code.
StatErr(f) == IF ~file[f].exists THEN "ENOENT" ELSE "none"
\* fs.readFile(path): "none" or the error code.
ReadErr(f) == IF ~file[f].exists THEN "ENOENT"
              ELSE IF file[f].mode = "none" THEN "EACCES" ELSE "none"
\* fs.writeFile(path, body): "none" or the error code; a missing file is created.
WriteErr(f) == IF file[f].exists /\ file[f].mode # "rw" THEN "EACCES" ELSE "none"
Written(f, body) == [exists |-> TRUE, body |-> body, mtime |-> file[f].mtime + 1,
                     mode |-> file[f].mode]

\* ------------------------------------------------------------------ initial states
\* Two files, the default one last or first, any content; one file, any maximum;
\* and the configurations with no or several default files, on empty files.
TwoFileConfigs ==
  {[files |-> FileConfs(fl), max_users |-> NoMax] : fl \in {<<FALSE, TRUE>>, <<TRUE, FALSE>>}}
OneFileConfigs ==
  {[files |-> FileConfs(<<TRUE>>), max_users |-> m] : m \in {NoMax, Max(-1), Max(0), Max(1)}}
OtherConfigs ==
  {[files |-> FileConfs(fl), max_users |-> NoMax] :
     fl \in {<< >>, <<FALSE>>, <<FALSE, FALSE>>, <<TRUE, TRUE>>}}
InitFiles == {Missing, Present(<< >>), Present(<< <<"alice", Hash("p")>> >>),
              Present(<< <<"alice", Hash("q")>> >>)}

InitWith(configSet, fileSet) ==
  /\ config \in configSet
  /\ store = Constructor(config)
  /\ file \in {d \in [FileIds -> fileSet] : \A f \in FileIds : f > NumFiles => d[f] = Missing}
  /\ file0 = file
  /\ lastTime = [f \in FileIds |-> NoDate]
  /\ users = 0
  /\ heap = [r \in ObjRefs |-> EmptyMap]
  /\ lock = 0
  /\ op = [o \in Ops |-> IdleOp]
  /\ task = [o \in Ops |-> [f \in FileIds |-> NoTask]]
  /\ edits = 0
  /\ ver = 0

Init ==
  \/ InitWith(TwoFileConfigs \cup OneFileConfigs, InitFiles)
  \/ InitWith(OtherConfigs, {Missing, Present(<< >>)})

\* ------------------------------------------------------------------ helpers of the actions
\* realCb(err, !err), cb(err) of authenticate: the operation is over; idx is
\* this.users at that moment, v the disk version.
Finish(r, e, idx, v) ==
  [r EXCEPT !.pc = "done", !.err = e, !.ok = (e = "none"), !.calls = @ + 1,
            !.endVer = v, !.snap = IF r.kind = "authenticate" THEN idx ELSE EmptyMap]

\* cb(err) of adduser and changePassword: unlock first when locked.
CleanupCb(r, e, idx, v) ==
  IF r.locked THEN [r EXCEPT !.pc = "unlock", !.pend = e]
  ELSE Finish(r, e, idx, v)

\* The callback of authenticate's reload, for the arguments (user, password) and
\* with this.users = idx: what cb is called with, as [err, res, groups].
AuthenticateCb(e, idx, user, password) ==
  IF e # "none"
  THEN [err |-> IF e = "ENOENT" THEN "none" ELSE e, res |-> "undefined", groups |-> {}]
  ELSE IF ~idx[user].present
  THEN [err |-> "none", res |-> "false", groups |-> {}]
  ELSE IF ~verifyPassword(password, idx[user].passwd)
  THEN [err |-> "none", res |-> "false", groups |-> {}]
  ELSE [err |-> "none", res |-> "groups", groups |-> idx[user].groups]

\* The callback of _writeFile's reload: cb(null), whatever the reload reported.
WriteFileReloaded(r, e, idx, v) == CleanupCb(r, "none", idx, v)

\* What runs when the Promise.all of an operation's reload settles with e.  The
\* user and password of authenticate are first read here: the operation keeps the
\* outcome of the reload (rerr) and this.users (snap), which decide what cb gets
\* for every user and password.
ReloadSettled(r, e, idx, v) ==
  IF r.kind = "authenticate"
  THEN Finish([r EXCEPT !.rerr = e], AuthenticateCb(e, idx, "alice", "p").err, idx, v)
  ELSE WriteFileReloaded([r EXCEPT !.rerr = e], e, idx, v)

\* What the cb of the finished authenticate o got, had it been called with (u, p).
authenticate(o, u, p) == AuthenticateCb(op[o].rerr, op[o].snap, u, p)

\* that.files.map(item => that._reloadFile(item)): one promise per configured
\* file, each with the lastTime and the this.users of this moment.
ReloadTasks(u) ==
  [f \in FileIds |-> IF f \in Configured
                     THEN [pc |-> "stat", lastTime |-> lastTime[f], oldUsers |-> u]
                     ELSE NoTask]

Called(o) == op[o].pc # "idle"
CanCall(o) == store.ok /\ ~Called(o) /\ \A x \in Ops : x < o => Called(x)
Call(o, kind) ==
  [op[o] EXCEPT !.kind = kind, !.startVer = ver, !.after = {x \in Ops : op[x].pc = "done"}]

\* ------------------------------------------------------------------ reload
\* authenticate(user, password, cb): reload.
CallAuthenticate(o) ==
  /\ CanCall(o)
  /\ op' = [op EXCEPT ![o] = [Call(o, "authenticate") EXCEPT !.pc = "reload"]]
  /\ task' = [task EXCEPT ![o] = ReloadTasks(users)]
  /\ UNCHANGED <<config, store, file0, file, lastTime, users, heap, lock, edits, ver>>

\* A promise of _reloadFile settles: the first rejection, or the last resolution,
\* settles the Promise.all of a reload that is still pending.
TaskSettles(o, f, pc, e, h) ==
  LET t == [task EXCEPT ![o][f] = [NoTask EXCEPT !.pc = pc]]
      allDone == \A g \in Configured : t[o][g].pc = "resolved"
      hh == Collect(h, users, t)
  IN /\ task' = t
     /\ heap' = hh
     /\ op' = IF op[o].pc = "reload" /\ (pc = "rejected" \/ allDone)
              THEN [op EXCEPT ![o] = ReloadSettled(op[o], e, hh[users], ver)]
              ELSE op

\* stats.mtime === lastTime of _reloadFile: is the file skipped?
Unchanged(last, mtime) == SameObject(last, mtime)

\* The callback of fs.stat in _reloadFile.
StatDone(o, f) ==
  /\ task[o][f].pc = "stat"
  /\ LET mtime == [set |-> TRUE, id |-> NewDate, t |-> file[f].mtime] IN
       IF StatErr(f) # "none" THEN
         /\ TaskSettles(o, f, "rejected", StatErr(f), heap)
         /\ UNCHANGED lastTime
       ELSE IF Unchanged(task[o][f].lastTime, mtime) THEN
         /\ TaskSettles(o, f, "resolved", "none", heap)
         /\ UNCHANGED lastTime
       ELSE
         /\ lastTime' = [lastTime EXCEPT ![f] = mtime]
         /\ task' = [task EXCEPT ![o][f].pc = "read", ![o][f].lastTime = NoDate]
         /\ UNCHANGED <<op, heap>>
  /\ UNCHANGED <<config, store, file0, file, users, lock, edits, ver>>

\* The callback of fs.readFile in _reloadFile.
ReadFileDone(o, f) ==
  /\ task[o][f].pc = "read"
  /\ IF ReadErr(f) # "none" THEN
       TaskSettles(o, f, "rejected", ReadErr(f), heap)
     ELSE
       LET old == task[o][f].oldUsers
           parsed == parseHTPasswd(file[f].body, config.files[f].groupName, heap[old])
       IN TaskSettles(o, f, "resolved", "none", [heap EXCEPT ![old] = Spread(heap[old], parsed)])
  /\ UNCHANGED <<config, store, file0, file, lastTime, users, lock, edits, ver>>

\* ------------------------------------------------------------------ locked file access
\* lockAndRead(path, cb): the results the callback can get, as [err, res, holds]:
\* holds tells whether the advisory lock was taken.  A missing file is no
\* acquisition error: the lock is taken and the read reports ENOENT.  Any other
\* read failure surfaces with the lock still held.  A lock that is held is waited
\* for; the wait fails (ELOCKED) only for a lock that nobody is going to release.
lockAndRead(path) ==
  IF lock = 0
  THEN {[err |-> ReadErr(path), res |-> IF ReadErr(path) = "none" THEN file[path].body ELSE <<>>,
         holds |-> TRUE]}
  ELSE {r \in {[err |-> "ELOCKED", res |-> <<>>, holds |-> FALSE]} : op[lock].pc = "done"}

\* The test of the lockAndRead callbacks, had it not ignored ENOENT.
AnyError(err) == err # "none"

\* The test of the lockAndRead callbacks, had it ignored every error.
NoError(err) == FALSE

\* if (err && err.code !== 'ENOENT') of the lockAndRead callbacks: a missing file
\* is ignored, the file is created by the write.
LockReadFailed(err) == err # "none" /\ err # "ENOENT"

\* ------------------------------------------------------------------ adduser
\* adduser(user, password, realCb): the preliminary checks, then lockAndRead.
CallAdduser(o, u, p) ==
  /\ CanCall(o)
  /\ LET sanity == sanityCheck(u, p, heap[users], store.maxUsers)
         r == [Call(o, "adduser") EXCEPT !.user = u, !.password = p]
     IN op' = [op EXCEPT ![o] = IF sanity # "none"
                                THEN Finish(r, sanity, heap[users], ver)
                                ELSE [r EXCEPT !.pc = "lock"]]
  /\ UNCHANGED <<config, store, file0, file, lastTime, users, heap, lock, task, edits, ver>>

\* The callback of lockAndRead in adduser.
AdduserLocked(o) ==
  /\ op[o].kind = "adduser" /\ op[o].pc = "lock"
  /\ \E got \in lockAndRead(store.defaultFile) :
       LET r0 == [op[o] EXCEPT !.locked = (got.err = "none"), !.acquired = got.holds,
                               !.lerr = got.err]
           body == got.res
           defaultUsers == parseHTPasswd(body, DefaultGroup, heap[users])
           new == NewObj
           merged == Spread(heap[users], defaultUsers)
           sanity == sanityCheck(r0.user, r0.password, merged, store.maxUsers)
       IN /\ lock' = IF got.holds THEN o ELSE lock
          /\ IF LockReadFailed(got.err) THEN
               /\ op' = [op EXCEPT ![o] = CleanupCb(r0, got.err, heap[users], ver)]
               /\ UNCHANGED <<users, heap>>
             ELSE
               /\ users' = new
               /\ heap' = Collect([heap EXCEPT ![new] = merged], new, task)
               /\ op' = [op EXCEPT ![o] =
                           IF sanity # "none"
                           THEN CleanupCb([r0 EXCEPT !.rbody = body], sanity, merged, ver)
                           ELSE [r0 EXCEPT !.pc = "write", !.rbody = body, !.wrote = TRUE,
                                           !.wbody = addUserToHTPasswd(body, r0.user, r0.password)]]
  /\ UNCHANGED <<config, store, file0, file, lastTime, task, edits, ver>>

\* ------------------------------------------------------------------ changePassword
\* changePassword(user, password, newPassword, realCb): lockAndRead at once.
CallChangePassword(o) ==
  /\ CanCall(o)
  /\ op' = [op EXCEPT ![o] = [Call(o, "changePassword") EXCEPT !.pc = "lock"]]
  /\ UNCHANGED <<config, store, file0, file, lastTime, users, heap, lock, task, edits, ver>>

\* The check of changePassword, had it looked the user up in this.users (the
\* merged index) instead of the entries of the default file.
UserUnknownInIndex(defaultUsers, merged, user) == ~merged[user].present

\* if (!defaultUsers[user]) of changePassword.
UserUnknown(defaultUsers, merged, user) == ~defaultUsers[user].present

\* The callback of lockAndRead in changePassword.  The user, password and
\* newPassword are first read here, and are drawn here.
ChangePasswordLocked(o) ==
  /\ op[o].kind = "changePassword" /\ op[o].pc = "lock"
  /\ \E got \in lockAndRead(store.defaultFile), u \in Users, p \in Passwords,
        np \in ChangedPasswords :
       LET r0 == [op[o] EXCEPT !.locked = (got.err = "none"), !.acquired = got.holds,
                               !.lerr = got.err, !.user = u, !.password = np]
           body == got.res
           defaultUsers == parseHTPasswd(body, DefaultGroup, heap[users])
           new == NewObj
           merged == Spread(heap[users], defaultUsers)
       IN /\ lock' = IF got.holds THEN o ELSE lock
          /\ IF LockReadFailed(got.err) THEN
               /\ op' = [op EXCEPT ![o] = CleanupCb(r0, got.err, heap[users], ver)]
               /\ UNCHANGED <<users, heap>>
             ELSE
               /\ users' = new
               /\ heap' = Collect([heap EXCEPT ![new] = merged], new, task)
               /\ op' = [op EXCEPT ![o] =
                           IF UserUnknown(defaultUsers, merged, u)
                           THEN CleanupCb([r0 EXCEPT !.rbody = body], "UserNotFound", merged, ver)
                           ELSE [r0 EXCEPT !.pc = "write", !.rbody = body, !.wrote = TRUE,
                                           !.wbody = changePasswordToHTPasswd(body, u, p, np)]]
  /\ UNCHANGED <<config, store, file0, file, lastTime, task, edits, ver>>

\* ------------------------------------------------------------------ _writeFile, unlock
\* The callback of fs.writeFile in _writeFile: cb(err), or a reload.
WriteFileDone(o) ==
  /\ op[o].pc = "write"
  /\ LET path == store.defaultFile IN
       IF WriteErr(path) # "none" THEN
         /\ op' = [op EXCEPT ![o] = CleanupCb([op[o] EXCEPT !.wbody = <<>>], WriteErr(path),
                                              heap[users], ver)]
         /\ UNCHANGED <<file, task, ver>>
       ELSE
         /\ file' = [file EXCEPT ![path] = Written(path, op[o].wbody)]
         /\ ver' = ver + 1
         /\ op' = [op EXCEPT ![o].pc = "reload", ![o].wbody = <<>>]
         /\ task' = [task EXCEPT ![o] = ReloadTasks(users)]
  /\ UNCHANGED <<config, store, file0, lastTime, users, heap, lock, edits>>

\* What unlockFile can report: nothing, or that the lock was no longer there.
UnlockErrs == {"none", "ENOTACQUIRED"}

\* The callback of unlockFile, had it reported the failure of the unlock.
UnlockCbReporting(err, uerr) == IF uerr # "none" THEN uerr ELSE err

\* The callback of unlockFile: "ignore any error from the unlock", realCb gets
\* the err that cb was called with.
UnlockCb(err, uerr) == err

\* The callback of unlockFile: realCb(err, !err), whatever the unlock reported.
UnlockDone(o) ==
  /\ op[o].pc = "unlock"
  /\ lock' = IF lock = o THEN 0 ELSE lock
  /\ \E uerr \in UnlockErrs :
       op' = [op EXCEPT ![o] = Finish([op[o] EXCEPT !.unlocks = @ + 1, !.pend = "none",
                                                   !.uerr = uerr],
                                      UnlockCb(op[o].pend, uerr), heap[users], ver)]
  /\ UNCHANGED <<config, store, file0, file, lastTime, users, heap, task, edits, ver>>

\* ------------------------------------------------------------------ other processes
\* Another process (an administrator, a tool) rewrites, removes or protects a
\* configured file.  Its changes are taken to land between two operations of the
\* store; what the disk holds before the first operation is drawn by Init.
Quiescent ==
  /\ \E o \in Ops : Called(o)
  /\ \E o \in Ops : ~Called(o)
  /\ \A o \in Ops : op[o].pc \in {"idle", "done"}
  /\ PendingTasks(task) = {}
CanEdit(f) == store.ok /\ edits < MaxEdits /\ f \in Configured /\ Quiescent

EditBodies == {<< >>, << <<"alice", Hash("q")>> >>}
ExtWrite(f, body) ==
  /\ CanEdit(f)
  /\ ~(file[f].exists /\ file[f].body = body)
  /\ file' = [file EXCEPT ![f] = [Written(f, body) EXCEPT !.mode = "rw"]]
  /\ edits' = edits + 1
  /\ ver' = ver + 1
  /\ UNCHANGED <<config, store, file0, lastTime, users, heap, lock, op, task>>

ExtUnlink(f) ==
  /\ CanEdit(f)
  /\ file[f].exists
  /\ file' = [file EXCEPT ![f] = Missing]
  /\ edits' = edits + 1
  /\ ver' = ver + 1
  /\ UNCHANGED <<config, store, file0, lastTime, users, heap, lock, op, task>>

ExtChmod(f, mode) ==
  /\ CanEdit(f)
  /\ file[f].exists /\ file[f].mode # mode
  /\ file' = [file EXCEPT ![f].mode = mode]
  /\ edits' = edits + 1
  /\ ver' = ver + 1
  /\ UNCHANGED <<config, store, file0, lastTime, users, heap, lock, op, task>>

\* ------------------------------------------------------------------ specification
Next ==
  \/ \E o \in Ops : CallAuthenticate(o)
  \/ \E o \in Ops, u \in Users, p \in NewPasswords : CallAdduser(o, u, p)
  \/ \E o \in Ops : CallChangePassword(o)
  \/ \E o \in Ops : AdduserLocked(o)
  \/ \E o \in Ops : ChangePasswordLocked(o)
  \/ \E o \in Ops : WriteFileDone(o)
  \/ \E o \in Ops, f \in FileIds : StatDone(o, f)
  \/ \E o \in Ops, f \in FileIds : ReadFileDone(o, f)
  \/ \E o \in Ops : UnlockDone(o)
  \/ \E f \in FileIds, body \in EditBodies : ExtWrite(f, body)
  \/ \E f \in FileIds : ExtUnlink(f)
  \/ \E f \in FileIds, mode \in {"r", "none"} : ExtChmod(f, mode)

Spec == Init /\ [][Next]_vars

\* ------------------------------------------------------------------ vocabulary of the claims
Done(o) == op[o].pc = "done"
Mutation(o) == op[o].kind \in {"adduser", "changePassword"}
\* o ran alone: every other operation called ended before it or began after it.
Sequential(o) == \A x \in Ops \ {o} : Called(x) => (x \in op[o].after \/ (Done(o) /\ o \in op[x].after))
DiskUsers == UNION {BodyUsers(file[f].body) : f \in Configured}
OnDisk0(u) == \E f \in Configured : u \in BodyUsers(file0[f].body)
\* A reload that ended well while no file changed, and no file has changed since.
ReloadedStable(o) ==
  /\ op[o].kind = "authenticate" /\ Done(o) /\ op[o].rerr = "none"
  /\ op[o].startVer = ver /\ op[o].endVer = ver

\* ------------------------------------------------------------------ C1
\* C1: an adduser or changePassword whose lockAndRead took the lock (also when the
\* file is missing and the read reports ENOENT) has released it exactly once by
\* the time it calls back, and no longer holds it.
C1_LockReleasedOnce ==
  \A o \in Ops : (Mutation(o) /\ Done(o) /\ op[o].acquired) => (op[o].unlocks = 1 /\ lock # o)

\* ------------------------------------------------------------------ C2
\* C2: two addusers of distinct usernames that no file holds, with no maximum and
\* nobody else changing the files, both end with success, and the default file
\* then has both usernames, whether the default file existed before or not.
C2_NoLostUpdate ==
  \A a, b \in Ops :
    (/\ a # b /\ op[a].kind = "adduser" /\ op[b].kind = "adduser"
     /\ Done(a) /\ Done(b) /\ op[a].user # op[b].user
     /\ store.maxUsers.inf /\ edits = 0
     /\ ~OnDisk0(op[a].user) /\ ~OnDisk0(op[b].user))
    => (/\ op[a].ok /\ op[b].ok
        /\ {op[a].user, op[b].user} \subseteq BodyUsers(file[store.defaultFile].body))

\* ------------------------------------------------------------------ C3
\* C3: after an adduser(u, p) that ended with success, an authenticate called
\* afterwards, with the files unchanged in between, gets for (u, p) a group list
\* with the default file's group, and for (u, q), q # p, false.
C3_AddThenAuthenticate ==
  \A a, b \in Ops :
    (/\ op[a].kind = "adduser" /\ Done(a) /\ op[a].ok
     /\ op[b].kind = "authenticate" /\ Done(b) /\ a \in op[b].after
     /\ op[a].endVer = op[b].endVer)
    => (/\ authenticate(b, op[a].user, op[a].password).res = "groups"
        /\ DefaultGroup \in authenticate(b, op[a].user, op[a].password).groups
        /\ \A q \in Passwords \ {op[a].password} :
             authenticate(b, op[a].user, q).res = "false")

\* ------------------------------------------------------------------ C4
\* C4: an adduser of a username that a configured file holds (registration not
\* being disabled, nobody else changing the files) ends without success, with
\* UserExists unless lockAndRead failed, and has issued no write, whatever the
\* index held when it was called.
C4_DuplicateRejected ==
  \A o \in Ops :
    (/\ op[o].kind = "adduser" /\ Done(o) /\ edits = 0
     /\ OnDisk0(op[o].user)
     /\ (store.maxUsers.inf \/ store.maxUsers.n >= 0))
    => (/\ ~op[o].ok /\ ~op[o].wrote
        /\ op[o].lerr \in {"none", "ENOENT"} => op[o].err = "UserExists")

\* ------------------------------------------------------------------ C5
\* C5: with a configured maximum m, a call of adduser for a username the index
\* does not hold ends at once with MaxUsersReached when m is negative or when
\* the index holds at least m users (m = 0 included).
C5_MaxUsers ==
  [][\A o \in Ops :
       (/\ op[o].pc = "idle" /\ op'[o].kind = "adduser"
        /\ config.max_users.given
        /\ ~heap[users][op'[o].user].present
        /\ (config.max_users.n < 0 \/ Cardinality(Keys(heap[users])) >= config.max_users.n))
       => (op'[o].pc = "done" /\ op'[o].err = "MaxUsersReached" /\ ~op'[o].wrote)]_vars

\* ------------------------------------------------------------------ C6
\* C6: a changePassword for a username with no entry in the default file (as read
\* under the lock) issues no write, and it ends without success: with the error
\* UserNotFound whenever lockAndRead delivered the file (or ENOENT).
C6_UnknownUserNoWrite ==
  \A o \in Ops :
    (/\ op[o].kind = "changePassword" /\ op[o].pc \notin {"idle", "lock"}
     /\ op[o].user \notin BodyUsers(op[o].rbody))
    => (/\ ~op[o].wrote /\ op[o].pc # "write" /\ op[o].pc # "reload"
        /\ Done(o) => (/\ ~op[o].ok
                       /\ op[o].lerr \in {"none", "ENOENT"} => op[o].err = "UserNotFound"))

\* C6 happens: a changePassword for an unknown user read the default file under
\* the lock, was refused with UserNotFound and released the lock.
C6_Witness ==
  \E o \in Ops :
    /\ op[o].kind = "changePassword" /\ Done(o) /\ op[o].lerr = "none"
    /\ op[o].rbody # << >> /\ op[o].user \notin BodyUsers(op[o].rbody)
    /\ op[o].err = "UserNotFound" /\ op[o].unlocks = 1
    /\ file[store.defaultFile].body = op[o].rbody

\* ------------------------------------------------------------------ C7
\* C7: after a reload that ended well, run alone on files that did not change
\* meanwhile, the usernames of the index are exactly the usernames in the files.
C7_IndexEqualsDisk ==
  \A o \in Ops : (ReloadedStable(o) /\ Sequential(o)) => Keys(op[o].snap) = DiskUsers

\* ------------------------------------------------------------------ C8
\* C8: with u in file A (first, group g1) and in file B (second, group g2), after
\* a reload that ended well and ran alone on unchanged files, u's record has the
\* groups {g1, g2} and the hash of file B.
C8_OverrideRule ==
  \A o \in Ops, u \in Users :
    (/\ ReloadedStable(o) /\ Sequential(o) /\ NumFiles = 2
     /\ u \in BodyUsers(file[1].body) /\ u \in BodyUsers(file[2].body))
    => (/\ op[o].snap[u].groups = {config.files[1].groupName, config.files[2].groupName}
        /\ op[o].snap[u].passwd = parseHTPasswd(file[2].body, "", EmptyMap)[u].passwd)

\* ------------------------------------------------------------------ C9
\* C9: two reloads that ended well, the second called after the first ended, with
\* no file changed from the start of the first to the end of the second, leave
\* the same index.
C9_ReloadIdempotent ==
  \A a, b \in Ops :
    (/\ op[a].kind = "authenticate" /\ Done(a) /\ op[a].rerr = "none"
     /\ op[b].kind = "authenticate" /\ Done(b) /\ op[b].rerr = "none"
     /\ a \in op[b].after /\ op[a].startVer = op[b].endVer)
    => op[a].snap = op[b].snap

\* ------------------------------------------------------------------ C10
\* C10: in a reload, a file whose modification time equals the last-observed one
\* (the one of the FileConf when the reload began, and still the stored one) is
\* not read.
C10_UnchangedSkipped ==
  [][\A o \in Ops, f \in FileIds :
       (/\ task[o][f].pc = "stat" /\ file[f].exists
        /\ task[o][f].lastTime.set /\ task[o][f].lastTime.t = file[f].mtime
        /\ lastTime[f].set /\ lastTime[f].t = file[f].mtime)
       => task'[o][f].pc # "read"]_vars

\* ------------------------------------------------------------------ C11
\* C11: an authenticate whose reload failed gets the error, unless the failure is
\* ENOENT for the default file: with the default file in place during the whole
\* call, an ENOENT (which then is the one of a non-default file) is surfaced, and
\* so is every failure other than ENOENT.
C11_OnlyDefaultNotFoundDowngraded ==
  \A o \in Ops :
    (op[o].kind = "authenticate" /\ Done(o) /\ op[o].rerr # "none")
    => (/\ op[o].rerr # "ENOENT" => op[o].err = op[o].rerr
        /\ (/\ op[o].rerr = "ENOENT" /\ op[o].startVer = ver /\ op[o].endVer = ver
            /\ file[store.defaultFile].exists)
           => op[o].err = "ENOENT")

\* ------------------------------------------------------------------ C12
\* C12: on a store whose default file does not exist yet, an adduser(u, p) that is
\* the first operation and runs alone, registration not being disabled, ends with
\* success, and the default file then exists with exactly one line, the one of u.
C12_Bootstrap ==
  \A o \in Ops :
    (/\ op[o].kind = "adduser" /\ Done(o) /\ op[o].after = {} /\ Sequential(o)
     /\ ~file0[store.defaultFile].exists
     /\ (~config.max_users.given \/ config.max_users.n >= 1)
     /\ op[o].endVer = ver)
    => (/\ op[o].ok /\ op[o].err = "none" /\ op[o].calls = 1
        /\ file[store.defaultFile].exists
        /\ file[store.defaultFile].body = << <<op[o].user, Hash(op[o].password)>> >>)

\* C12 happens: the first adduser found no default file, wrote it and succeeded.
C12_Witness ==
  \E o \in Ops :
    /\ op[o].kind = "adduser" /\ Done(o) /\ op[o].after = {} /\ Sequential(o)
    /\ ~file0[store.defaultFile].exists /\ op[o].lerr = "ENOENT" /\ op[o].wrote
    /\ op[o].ok /\ op[o].endVer = ver
    /\ file[store.defaultFile].body = << <<op[o].user, Hash(op[o].password)>> >>

\* ------------------------------------------------------------------ C13
\* C13: an adduser or changePassword calls realCb once, when it ends, and never
\* again; the flag it passes is true exactly when the error is absent; and the
\* call that follows the unlock passes the error the pipeline ended with,
\* whatever the unlock reported.
C13_CallbackOnce ==
  [][\A o \in Ops :
       /\ op'[o].calls = (IF op'[o].pc = "done" THEN 1 ELSE 0)
       /\ op[o].pc = "done" => op'[o] = op[o]
       /\ (Mutation(o) /\ op'[o].pc = "done")
          => (/\ op'[o].ok = (op'[o].err = "none")
              /\ op[o].pc = "unlock" => op'[o].err = op[o].pend)]_vars

\* C13 happens: the unlock failed after a pipeline that ended with an error, and
\* after one that ended well.
C13_Witness ==
  /\ \E o \in Ops : /\ Mutation(o) /\ Done(o) /\ op[o].uerr # "none"
                     /\ op[o].err = "UserExists" /\ ~op[o].ok /\ op[o].calls = 1
  /\ \E o \in Ops : /\ Mutation(o) /\ Done(o) /\ op[o].uerr # "none"
                     /\ op[o].wrote /\ op[o].ok /\ op[o].calls = 1

\* ------------------------------------------------------------------ C14
\* C14: the constructor does not throw only if exactly one of the configured
\* files is marked default: a store exists for no configuration with an empty
\* list, with no default file or with several default files.
C14_ExactlyOneDefault ==
  store.ok => Cardinality({i \in 1..Len(config.files) : config.files[i].isDefault}) = 1

\* ------------------------------------------------------------------ C15
\* C15: an adduser or changePassword one of whose steps failed (lockAndRead with
\* another error than the ignored ENOENT, the write of the default file, or the
\* reload after the write) ends with an error and without success.
C15_ErrorsReported ==
  \A o \in Ops :
    (/\ Mutation(o) /\ Done(o)
     /\ (LockReadFailed(op[o].lerr) \/ op[o].rerr # "none"))
    => (~op[o].ok /\ op[o].err # "none")

\* ------------------------------------------------------------------ C16
\* u's lines in the configured files that exist all carry the hash of p, and
\* there is such a line.
OnDiskWith(u, p) ==
  /\ \E f \in Configured : file[f].exists /\ u \in BodyUsers(file[f].body)
  /\ \A f \in Configured : \A i \in LinesOf(file[f].body, u) :
       file[f].exists => file[f].body[i][2] = Hash(p)

\* C16: an authenticate whose reload ended well on files that did not change
\* meanwhile, whatever adduser or changePassword ran in between its steps, finds
\* for a user u that is on disk with password p the groups of u.
C16_ReloadSeenByAuthenticate ==
  \A o \in Ops, u \in Users, p \in Passwords :
    (ReloadedStable(o) /\ OnDiskWith(u, p)) => authenticate(o, u, p).res = "groups"

\* ------------------------------------------------------------------ C17
\* C17: in an adduser or changePassword that reaches the write step, the write is
\* issued by the lockAndRead callback, with the lock taken and after the check
\* against the index just merged passed; the unlock is issued when the reload
\* has settled (or the write failed); and realCb is called by the callback of
\* the unlock, not before.
C17_StepOrder ==
  [][\A o \in Ops :
       (Mutation(o) /\ op'[o].wrote)
       => (/\ (op[o].pc # "write" /\ op'[o].pc = "write")
              => (/\ op[o].pc = "lock" /\ op'[o].acquired /\ lock' = o
                  /\ op[o].kind = "adduser"
                     => sanityCheck(op'[o].user, op'[o].password, heap'[users'],
                                    store.maxUsers) = "none"
                  /\ op[o].kind = "changePassword"
                     => op'[o].user \in BodyUsers(op'[o].rbody))
           /\ (op[o].pc # "unlock" /\ op'[o].pc = "unlock")
              => (IF op[o].pc = "reload"
                  THEN \/ \A f \in Configured : task'[o][f].pc = "resolved"
                       \/ \E f \in Configured : task'[o][f].pc = "rejected"
                  ELSE op[o].pc = "write" /\ WriteErr(store.defaultFile) # "none")
           /\ (op[o].pc # "done" /\ op'[o].pc = "done")
              => (op[o].pc = "unlock" /\ op'[o].unlocks = 1))]_vars

\* ------------------------------------------------------------------ C18
\* The pipelines between their lock acquisition and their lock release.
Holders == {o \in Ops : Mutation(o) /\ op[o].acquired /\ op[o].unlocks = 0}

\* C18: at most one adduser or changePassword is between taking and releasing
\* the lock of the default file, it is the one the lock names, and an operation
\* whose write of the default file (or what follows it up to the unlock) is
\* under way holds the lock.
C18_MutualExclusion ==
  /\ Cardinality(Holders) <= 1
  /\ \A o \in Holders : lock = o
  /\ \A o \in Ops : (Mutation(o) /\ op[o].pc \in {"write", "reload", "unlock"})
                      => (o \in Holders /\ lock = o)

\* C18 happens: an operation called while another one held the lock took the
\* lock after that one's release and has its write under way.
C18_Witness ==
  \E a, b \in Ops :
    /\ a # b /\ Mutation(a) /\ Done(a) /\ op[a].wrote /\ op[a].unlocks = 1
    /\ Mutation(b) /\ a \notin op[b].after /\ op[b].pc = "write" /\ lock = b

\* ------------------------------------------------------------------ C19
\* C19: a file that was never read successfully has no stored modification
\* time.  After the only reload so far, which failed with the read error of an
\* unreadable file (its stat succeeded), the lastTime of that file is unset.
C19_LastTimeOnlyAfterRead ==
  \A o \in Ops :
    (/\ op[o].kind = "authenticate" /\ Done(o) /\ op[o].rerr = "EACCES"
     /\ op[o].startVer = ver
     /\ \A x \in Ops \ {o} : op[x].kind # "authenticate" /\ ~op[x].wrote)
    => \A f \in Configured : ReadErr(f) = "EACCES" => ~lastTime[f].set

\* ------------------------------------------------------------------ C20
\* C20: no step of any operation removes a username from this.users: a username
\* the index holds before a step is in the index after it.
C20_IndexMonotonic ==
  [][\A u \in Users : heap[users][u].present => heap'[users'][u].present]_vars

\* C20 happens: the index was replaced by an adduser or changePassword, a user
\* then vanished from every configured file, and after a reload of the files as
\* they are now the index still holds that user.
C20_Witness ==
  /\ users # 0 /\ edits > 0
  /\ \E o \in Ops, u \in Users :
       /\ ReloadedStable(o)
       /\ heap[users][u].present /\ op[o].snap[u].present /\ u \notin DiskUsers

====
